---- MODULE Spec2Model ----
(***************************************************************************)
(* Risk scoring and report derivation of the assessment frontend.          *)
(*                                                                         *)
(* The report page reads the assessment profile from the session-storage   *)
(* slot, asks the API for the report and, when the API gives none, derives *)
(* the report locally with generateDemoReport.  The model holds the slot,  *)
(* the report page's React state (report, assessmentData, loading, error)  *)
(* and the local values of the last generateDemoReport call (locals).      *)
(*                                                                         *)
(* The assessment wizard is modelled as its five pages implement it (page, *)
(* isHydrated, fields, isSubmitting, reportId) and as the useMultiStepForm *)
(* hook drives it (hook).  requests counts the requests the user action   *)
(* under way has sent and holds how the last one settled.                  *)
(*                                                                         *)
(* items is the state of the report's Action Plan tab.  The quick scan     *)
(* (/quick-scan and /quick-scan/results) uses the page variables too, and  *)
(* scanStorage is its session-storage slot quick-scan-results.             *)
(***************************************************************************)
EXTENDS Integers, Sequences, FiniteSets

VARIABLES storage, report, assessmentData, locals, loading, error,
          page, isHydrated, fields, isSubmitting, reportId, hook, requests, items,
          scanStorage

\* the React state of ReportContent
reportVars == <<report, assessmentData, locals, loading>>

\* the state of the wizard pages and of the useMultiStepForm hook
wizardVars == <<page, isHydrated, fields, isSubmitting, reportId, hook>>

vars == <<storage, report, assessmentData, locals, loading, error,
          page, isHydrated, fields, isSubmitting, reportId, hook, requests, items,
          scanStorage>>

----------------------------------------------------------------------------
(* Bounds of the explored inputs *)

\* how many usage patterns a profile selects at most
MaxPatterns == 2

----------------------------------------------------------------------------
(* Reference catalogs (lib/constants) *)

\* baseRiskScore is kept in tenths (6.5 is 65)
AI_TOOLS ==
  << [id |-> "chatgpt",            baseRiskScore |-> 65, dataResidency |-> "US"],
     [id |-> "chatgpt_enterprise", baseRiskScore |-> 40, dataResidency |-> "US"],
     [id |-> "claude",             baseRiskScore |-> 55, dataResidency |-> "US"],
     [id |-> "copilot",            baseRiskScore |-> 45, dataResidency |-> "US"],
     [id |-> "github_copilot",     baseRiskScore |-> 50, dataResidency |-> "US"],
     [id |-> "gemini",             baseRiskScore |-> 60, dataResidency |-> "US"],
     [id |-> "midjourney",         baseRiskScore |-> 40, dataResidency |-> "US"],
     [id |-> "dall_e",             baseRiskScore |-> 45, dataResidency |-> "US"],
     [id |-> "notion_ai",          baseRiskScore |-> 50, dataResidency |-> "US"],
     [id |-> "grammarly",          baseRiskScore |-> 40, dataResidency |-> "US"] >>

DATA_TYPES ==
  << [value |-> "health_info",       riskScore |-> 25],
     [value |-> "financial_records", riskScore |-> 20],
     [value |-> "employee_data",     riskScore |-> 18],
     [value |-> "legal_contracts",   riskScore |-> 15],
     [value |-> "customer_contact",  riskScore |-> 12],
     [value |-> "public_marketing",  riskScore |-> 3] >>

SAFEGUARDS ==
  << [value |-> "canadian_hosted",   credit |-> 20],
     [value |-> "customer_consent",  credit |-> 15],
     [value |-> "vendor_agreements", credit |-> 12],
     [value |-> "ai_privacy_policy", credit |-> 10],
     [value |-> "employee_training", credit |-> 8],
     [value |-> "data_masking",      credit |-> 8],
     [value |-> "audit_logging",     credit |-> 5] >>

USAGE_PATTERN_OPTIONS ==
  << "OWNER_MANAGER", "SPECIFIC_DEPARTMENTS", "ALL_EMPLOYEES", "CONTRACTORS",
     "NO_RESTRICTIONS" >>

\* getRiskLevel(score)
getRiskLevel(score) ==
  IF score <= 25 THEN "LOW"
  ELSE IF score <= 50 THEN "MEDIUM"
  ELSE IF score <= 75 THEN "HIGH"
  ELSE "CRITICAL"

----------------------------------------------------------------------------
(* JavaScript helpers *)

\* Array.prototype.includes
includes(list, x) == \E i \in 1..Len(list) : list[i] = x

\* Math.min, Math.max
min(a, b) == IF a <= b THEN a ELSE b

max(a, b) == IF a >= b THEN a ELSE b

----------------------------------------------------------------------------
(* Catalog lookups, as the specification's scoring rules read the catalogs *)

isCatalogTool(id) == \E i \in 1..Len(AI_TOOLS) : AI_TOOLS[i].id = id

\* the catalog riskScore of a data type, 0 for a value the catalog lacks
catalogRiskScore(dt) ==
  LET hits == { i \in 1..Len(DATA_TYPES) : DATA_TYPES[i].value = dt }
  IN  IF hits = {} THEN 0 ELSE DATA_TYPES[CHOOSE i \in hits : TRUE].riskScore

\* the catalog credit of a safeguard, 0 for a value the catalog lacks
catalogCredit(sg) ==
  LET hits == { i \in 1..Len(SAFEGUARDS) : SAFEGUARDS[i].value = sg }
  IN  IF hits = {} THEN 0 ELSE SAFEGUARDS[CHOOSE i \in hits : TRUE].credit

\* the sum of the catalog riskScore over the entries of a list
RECURSIVE catalogRiskScoreSum(_)
catalogRiskScoreSum(list) ==
  IF list = << >> THEN 0
  ELSE catalogRiskScore(Head(list)) + catalogRiskScoreSum(Tail(list))

\* the sum of the catalog credit over the entries of a list
RECURSIVE catalogCreditSum(_)
catalogCreditSum(list) ==
  IF list = << >> THEN 0
  ELSE catalogCredit(Head(list)) + catalogCreditSum(Tail(list))

\* the entries of a list that are catalog tools
catalogToolsOf(list) == SelectSeq(list, isCatalogTool)

----------------------------------------------------------------------------
(* generateDemoReport: the local values, in the order the code computes them *)

\* variant: the catalog's riskScore per data type instead of the flat 12
dataRisk_catalog(data) == catalogRiskScoreSum(data.dataTypes)

dataRisk(data) == Len(data.dataTypes) * 12

\* variant: only identifiers of the catalog count
toolRisk_catalogOnly(data) == Len(catalogToolsOf(data.aiTools)) * 5

toolRisk(data) == Len(data.aiTools) * 5

\* variant: an empty selection contributes nothing
patternRisk_defaultZero(data) ==
  IF includes(data.usagePatterns, "NO_RESTRICTIONS") THEN 20
  ELSE IF includes(data.usagePatterns, "ALL_EMPLOYEES") THEN 15
  ELSE IF includes(data.usagePatterns, "CONTRACTORS") THEN 12
  ELSE IF data.usagePatterns = << >> THEN 0
  ELSE 10

\* variant: CONTRACTORS is tested before ALL_EMPLOYEES
patternRisk_contractorsFirst(data) ==
  IF includes(data.usagePatterns, "NO_RESTRICTIONS") THEN 20
  ELSE IF includes(data.usagePatterns, "CONTRACTORS") THEN 12
  ELSE IF includes(data.usagePatterns, "ALL_EMPLOYEES") THEN 15
  ELSE 10

patternRisk(data) ==
  IF includes(data.usagePatterns, "NO_RESTRICTIONS") THEN 20
  ELSE IF includes(data.usagePatterns, "ALL_EMPLOYEES") THEN 15
  ELSE IF includes(data.usagePatterns, "CONTRACTORS") THEN 12
  ELSE 10

\* variant: the catalog's credit per safeguard instead of the flat 8
safeguardCredit_catalog(data) == catalogCreditSum(data.safeguards)

safeguardCredit(data) == Len(data.safeguards) * 8

\* variant: the sum wraps around instead of stopping at 100
baseScore_wraps(data) ==
  (dataRisk(data) + toolRisk(data) + patternRisk(data)) % 101

baseScore(data) == min(100, dataRisk(data) + toolRisk(data) + patternRisk(data))

\* variant: the lower clamp is missing
finalScore_noFloor(data) == min(100, baseScore(data) - safeguardCredit(data))

\* variant: the credit is added instead of subtracted
finalScore_addsCredit(data) ==
  max(0, min(100, baseScore(data) + safeguardCredit(data)))

\* variant: the province's riskMultiplier of the catalog (QC 1.25, ON 1.15) is applied
finalScore_provinceMultiplier(data) ==
  max(0, min(100,
    ((baseScore(data) - safeguardCredit(data))
       * (IF data.provinceCode = "QC" THEN 125
          ELSE IF data.provinceCode = "ON" THEN 115 ELSE 100)) \div 100))

finalScore(data) == max(0, min(100, baseScore(data) - safeguardCredit(data)))

\* variant: strict comparisons at the thresholds
riskLevel_strict(score) ==
  IF score < 25 THEN "LOW"
  ELSE IF score < 50 THEN "MEDIUM"
  ELSE IF score < 75 THEN "HIGH"
  ELSE "CRITICAL"

\* the inline thresholds of generateDemoReport
riskLevel(score) ==
  IF score <= 25 THEN "LOW"
  ELSE IF score <= 50 THEN "MEDIUM"
  ELSE IF score <= 75 THEN "HIGH"
  ELSE "CRITICAL"

riskBreakdown(data) ==
  [ dataExposure    |-> min(30, dataRisk(data)),
    complianceGap   |-> min(25, 15),
    operationalRisk |-> min(20, patternRisk(data)),
    vendorRisk      |-> min(15, toolRisk(data)),
    policyGap       |-> IF data.hasWrittenPolicies THEN 0 ELSE 10 ]

executiveSummary(data) ==
  [ riskScore     |-> finalScore(data),
    riskLevel     |-> riskLevel(finalScore(data)),
    riskBreakdown |-> riskBreakdown(data) ]

\* the one record legalCompliance.pipedaStatus.issues is built from
pipedaIssue ==
  [ regulation |-> "PIPEDA",
    category   |-> "CONSENT",
    title      |-> "Meaningful Consent Required",
    severity   |-> "HIGH" ]

pipedaStatus(data) ==
  [ compliant |-> includes(data.safeguards, "customer_consent")
                    /\ includes(data.safeguards, "ai_privacy_policy"),
    issues    |-> << pipedaIssue >> ]

\* variant: prepared from two safeguards on
billC27Status_fromTwo(data) == [ prepared |-> Len(data.safeguards) >= 2 ]

billC27Status(data) == [ prepared |-> Len(data.safeguards) >= 3 ]

privacyOfficerIssue ==
  [ regulation |-> "Law 25",
    category   |-> "PRIVACY_OFFICER",
    title      |-> "Privacy Officer Required",
    severity   |-> "HIGH" ]

\* variant: the Quebec issue is dropped once the province counts as compliant
provincialStatus_issueWhenNot(data) ==
  [ province  |-> data.provinceCode,
    law       |-> IF data.provinceCode = "QC" THEN "Law 25"
                  ELSE IF data.provinceCode = "ON" THEN "PHIPA"
                  ELSE IF data.provinceCode = "BC" THEN "PIPA BC"
                  ELSE IF data.provinceCode = "AB" THEN "PIPA AB"
                  ELSE "PIPEDA (Federal)",
    compliant |-> Len(data.safeguards) >= 2,
    issues    |-> IF data.provinceCode = "QC" /\ Len(data.safeguards) < 2
                  THEN << privacyOfficerIssue >> ELSE << >> ]

provincialStatus(data) ==
  [ province  |-> data.provinceCode,
    law       |-> IF data.provinceCode = "QC" THEN "Law 25"
                  ELSE IF data.provinceCode = "ON" THEN "PHIPA"
                  ELSE IF data.provinceCode = "BC" THEN "PIPA BC"
                  ELSE IF data.provinceCode = "AB" THEN "PIPA AB"
                  ELSE "PIPEDA (Federal)",
    compliant |-> Len(data.safeguards) >= 2,
    issues    |-> IF data.provinceCode = "QC"
                  THEN << privacyOfficerIssue >> ELSE << >> ]

legalCompliance(data) ==
  [ pipedaStatus     |-> pipedaStatus(data),
    billC27Status    |-> billC27Status(data),
    provincialStatus |-> provincialStatus(data) ]

\* the tool identifiers the crossBorder test of a data flow lists
crossBorderTools == << "chatgpt", "claude", "gemini", "copilot" >>

\* aiTools.some(t => [...].includes(t))
crossBorder(data) ==
  \E i \in 1..Len(data.aiTools) : includes(crossBorderTools, data.aiTools[i])

dataFlowRiskLevel(dt) ==
  IF dt = "health_info" THEN "CRITICAL"
  ELSE IF dt = "financial_records" \/ dt = "legal_contracts" THEN "HIGH"
  ELSE IF dt = "employee_data" \/ dt = "customer_contact" THEN "MEDIUM"
  ELSE "LOW"

\* dataTypes.map(dt => ({ dataType, tools, riskLevel, crossBorder }))
dataFlows(data) ==
  [ i \in 1..Len(data.dataTypes) |->
      [ dataType    |-> data.dataTypes[i],
        tools       |-> IF Len(data.aiTools) > 0 THEN data.aiTools
                        ELSE << "No AI tools selected" >>,
        riskLevel   |-> dataFlowRiskLevel(data.dataTypes[i]),
        crossBorder |-> crossBorder(data) ] ]

exposureScore(dt) ==
  IF dt = "health_info" THEN 85
  ELSE IF dt = "financial_records" THEN 75
  ELSE IF dt = "legal_contracts" THEN 65
  ELSE IF dt = "employee_data" THEN 55
  ELSE IF dt = "customer_contact" THEN 45
  ELSE 15

\* dataTypes.map(dt => ({ dataType, score, concerns }))
exposureAnalysis(data) ==
  [ i \in 1..Len(data.dataTypes) |->
      [ dataType |-> data.dataTypes[i],
        score    |-> exposureScore(data.dataTypes[i]) ] ]

dataRiskAssessment(data) ==
  [ dataFlows        |-> dataFlows(data),
    exposureAnalysis |-> exposureAnalysis(data) ]

\* one ActionItem of the plan, not yet completed
ActionItem(id, title, priority, timeline, category) ==
  [ id |-> id, title |-> title, priority |-> priority, timeline |-> timeline,
    category |-> category, completed |-> FALSE ]

\* the action plan of the generated report: the same for every profile
actionPlan ==
  << ActionItem("1", "Update Privacy Policy", "CRITICAL", "30_DAYS", "Compliance"),
     ActionItem("2", "Implement Consent Mechanism", "HIGH", "30_DAYS", "Compliance"),
     ActionItem("3", "Create Employee AI Guidelines", "HIGH", "30_DAYS", "Operations"),
     ActionItem("4", "Review Vendor Agreements", "MEDIUM", "60_DAYS", "Legal"),
     ActionItem("5", "Conduct AI Inventory", "MEDIUM", "60_DAYS", "Operations"),
     ActionItem("6", "Employee Training", "MEDIUM", "90_DAYS", "Training"),
     ActionItem("7", "Prepare for Bill C-27", "LOW", "90_DAYS", "Compliance") >>

\* variant: the executive summary records the score before the safeguard credit
generateDemoReport_summaryBase(data) ==
  [ id                 |-> "demo-report",
    assessmentId       |-> "demo",
    riskScore          |-> finalScore(data),
    riskLevel          |-> riskLevel(finalScore(data)),
    executiveSummary   |->
      [ riskScore     |-> baseScore(data),
        riskLevel     |-> riskLevel(baseScore(data)),
        riskBreakdown |-> riskBreakdown(data) ],
    legalCompliance    |-> legalCompliance(data),
    dataRiskAssessment |-> dataRiskAssessment(data),
    actionPlan         |-> actionPlan ]

generateDemoReport(data) ==
  [ id                 |-> "demo-report",
    assessmentId       |-> "demo",
    riskScore          |-> finalScore(data),
    riskLevel          |-> riskLevel(finalScore(data)),
    executiveSummary   |-> executiveSummary(data),
    legalCompliance    |-> legalCompliance(data),
    dataRiskAssessment |-> dataRiskAssessment(data),
    actionPlan         |-> actionPlan ]

\* the values generateDemoReport held while it derived the report
localsOf(data) ==
  [ dataRisk        |-> dataRisk(data),
    toolRisk        |-> toolRisk(data),
    patternRisk     |-> patternRisk(data),
    safeguardCredit |-> safeguardCredit(data),
    baseScore       |-> baseScore(data),
    finalScore      |-> finalScore(data) ]

----------------------------------------------------------------------------
(* Explored inputs: the profiles the session-storage slot may hold *)

\* the slot is empty
NoProfile == [ none |-> "profile" ]

\* no report / no generateDemoReport call yet
NoReport == [ none |-> "report" ]

NoLocals == [ none |-> "locals" ]

NoError == "no-error"

\* no page-local fields / no hook mounted / no state update queued
NoFields == [ none |-> "fields" ]

NoHook == [ none |-> "hook" ]

NoQueued == [ none |-> "queued" ]

\* no request sent by the user action under way
NoRequests == [ sent |-> 0, response |-> "none" ]
\* the Action Plan tab is not mounted
NoItems == [ none |-> "items" ]

\* the slot quick-scan-results holds nothing
NoScan == [ none |-> "scan" ]

\* the report page is open on /report/a1 and no wizard page is mounted
onReportPage ==
  /\ requests = NoRequests
  /\ items = NoItems
  /\ scanStorage = NoScan
  /\ page = "report"
  /\ isHydrated = FALSE
  /\ fields = NoFields
  /\ isSubmitting = FALSE
  /\ reportId = "a1"
  /\ hook = NoHook

\* identifiers the explored profiles draw from; "internal_llm" and
\* "pipeda_compliance" are in no catalog (a website scan reports such values)
DataTypeInputs ==
  << "health_info", "financial_records", "employee_data", "legal_contracts",
     "customer_contact", "public_marketing" >>

ToolInputs == << "chatgpt", "grammarly", "internal_llm" >>

SafeguardInputs == << "customer_consent", "ai_privacy_policy", "pipeda_compliance" >>

\* the province plays no part in the score
ProvinceInputs == { "ON" }

\* the entries of ids that picked holds, in the order of ids
RECURSIVE Pick(_, _, _)
Pick(ids, picked, k) ==
  IF k > Len(ids) THEN << >>
  ELSE (IF k \in picked THEN << ids[k] >> ELSE << >>) \o Pick(ids, picked, k + 1)

\* the selections over ids: every identifier at most once
Selections(ids) == { Pick(ids, picked, 1) : picked \in SUBSET (1..Len(ids)) }

PatternLists ==
  { l \in Selections(USAGE_PATTERN_OPTIONS) : Len(l) <= MaxPatterns }

Profiles ==
  [ businessName       : { "Acme Dental" },
    industryId         : { "healthcare" },
    provinceCode       : ProvinceInputs,
    employeeCount      : { "SMALL" },
    aiTools            : Selections(ToolInputs),
    dataTypes          : Selections(DataTypeInputs),
    usagePatterns      : PatternLists,
    hasWrittenPolicies : BOOLEAN,
    safeguards         : Selections(SafeguardInputs),
    assessmentPath     : { "GUIDED" } ]

\* what GET /assessments/{id}/report may answer with
RemoteReports ==
  { [ id               |-> "remote-report",
      assessmentId     |-> "a1",
      riskScore        |-> 40,
      riskLevel        |-> "MEDIUM",
      executiveSummary |->
        [ riskScore     |-> 40,
          riskLevel     |-> "MEDIUM",
          riskBreakdown |->
            [ dataExposure |-> 20, complianceGap |-> 15, operationalRisk |-> 10,
              vendorRisk |-> 5, policyGap |-> 0 ] ],
      actionPlan       |->
        << [ ActionItem("r1", "Appoint a privacy officer", "HIGH", "30_DAYS", "Compliance")
               EXCEPT !.completed = TRUE ],
           ActionItem("r2", "Review Vendor Agreements", "MEDIUM", "60_DAYS", "Legal") >> ] }

\* the fetch of the report: a success response, a non-success response, a throw
FetchOutcomes == { "ok", "not_ok", "throws" }

----------------------------------------------------------------------------
(* The report page *)

Init ==
  /\ storage \in Profiles \cup { NoProfile }
  /\ report = NoReport
  /\ assessmentData = NoProfile
  /\ locals = NoLocals
  /\ loading = TRUE
  /\ error = NoError
  /\ onReportPage

\* variant: with an empty slot the report is derived from the default form data
loadReport_derivesFromDefaults ==
  /\ page = "report"
  /\ loading
  /\ assessmentData' = storage
  /\ \E fetched \in FetchOutcomes, remote \in RemoteReports :
       /\ requests' = [ sent     |-> requests.sent + 1,
                        response |-> IF fetched = "ok" THEN "ok" ELSE "rejected" ]
       /\ IF fetched = "ok"
          THEN /\ report' = remote
               /\ UNCHANGED <<locals, error>>
          ELSE LET saved == IF storage # NoProfile THEN storage
                            ELSE [ businessName |-> "", industryId |-> "",
                                   provinceCode |-> "ON", employeeCount |-> "MICRO",
                                   aiTools |-> << >>, dataTypes |-> << >>,
                                   usagePatterns |-> << >>, hasWrittenPolicies |-> FALSE,
                                   safeguards |-> << >>, assessmentPath |-> "GUIDED" ]
               IN  /\ report' = generateDemoReport(saved)
                   /\ locals' = localsOf(saved)
                   /\ UNCHANGED error
  /\ loading' = FALSE
  /\ UNCHANGED items
  /\ UNCHANGED scanStorage
  /\ UNCHANGED <<storage, wizardVars>>

\* variant: a non-success status shows an error instead of falling back
loadReport_errorOnNotOk ==
  /\ page = "report"
  /\ loading
  /\ assessmentData' = storage
  /\ \E fetched \in FetchOutcomes, remote \in RemoteReports :
       /\ requests' = [ sent     |-> requests.sent + 1,
                        response |-> IF fetched = "ok" THEN "ok" ELSE "rejected" ]
       /\ IF fetched = "ok"
          THEN /\ report' = remote
               /\ UNCHANGED <<locals, error>>
          ELSE IF storage # NoProfile /\ fetched = "throws"
          THEN /\ report' = generateDemoReport(storage)
               /\ locals' = localsOf(storage)
               /\ UNCHANGED error
          ELSE /\ error' = "No assessment data found. Please complete the assessment first."
               /\ UNCHANGED <<report, locals>>
  /\ loading' = FALSE
  /\ UNCHANGED items
  /\ UNCHANGED scanStorage
  /\ UNCHANGED <<storage, wizardVars>>

\* loadReport, run by the effect of ReportContent
\* variant: a failed fetch of the report is tried a second time
loadReport_retriesOnFailure ==
  /\ page = "report" /\ loading
  /\ assessmentData' = storage
  /\ \E fetched \in FetchOutcomes, remote \in RemoteReports :
       /\ requests' = [ sent     |-> requests.sent + (IF fetched = "ok" THEN 1 ELSE 2),
                        response |-> IF fetched = "ok" THEN "ok" ELSE "rejected" ]
       /\ IF fetched = "ok"
          THEN report' = remote /\ UNCHANGED <<locals, error>>
          ELSE IF storage # NoProfile
          THEN report' = generateDemoReport(storage) /\ locals' = localsOf(storage)
               /\ UNCHANGED error
          ELSE error' = "No assessment data found. Please complete the assessment first."
               /\ UNCHANGED <<report, locals>>
  /\ loading' = FALSE
  /\ UNCHANGED items
  /\ UNCHANGED scanStorage
  /\ UNCHANGED <<storage, wizardVars>>

loadReport ==
  /\ page = "report"
  /\ loading
  /\ assessmentData' = storage
  /\ \E fetched \in FetchOutcomes, remote \in RemoteReports :
       /\ requests' = [ sent     |-> requests.sent + 1,
                        response |-> IF fetched = "ok" THEN "ok" ELSE "rejected" ]
       /\ IF fetched = "ok"
          THEN /\ report' = remote
               /\ UNCHANGED <<locals, error>>
          ELSE IF storage # NoProfile
          THEN /\ report' = generateDemoReport(storage)
               /\ locals' = localsOf(storage)
               /\ UNCHANGED error
          ELSE /\ error' = "No assessment data found. Please complete the assessment first."
               /\ UNCHANGED <<report, locals>>
  /\ loading' = FALSE
  /\ UNCHANGED items
  /\ UNCHANGED scanStorage
  /\ UNCHANGED <<storage, wizardVars>>

\* the page is opened again: ReportContent mounts with its initial state
mountReportContent ==
  /\ page = "report"
  /\ ~loading
  /\ report' = NoReport
  /\ assessmentData' = NoProfile
  /\ locals' = NoLocals
  /\ loading' = TRUE
  /\ error' = NoError
  /\ requests' = NoRequests
  /\ items' = NoItems
  /\ UNCHANGED scanStorage
  /\ UNCHANGED <<storage, wizardVars>>

Next == loadReport \/ mountReportContent

Spec == Init /\ [][Next]_vars

----------------------------------------------------------------------------
(* The report page over profiles of several provinces *)

\* Ontario, Quebec, and a province with no law of its own in provincialStatus
LegalProvinceInputs == { "ON", "QC", "NB" }

LegalDataTypeInputs == << "health_info", "customer_contact", "public_marketing" >>

LegalPatternLists == { << >>, << "NO_RESTRICTIONS" >> }

LegalProfiles ==
  [ businessName       : { "Acme Dental" },
    industryId         : { "healthcare" },
    provinceCode       : LegalProvinceInputs,
    employeeCount      : { "SMALL" },
    aiTools            : Selections(ToolInputs),
    dataTypes          : Selections(LegalDataTypeInputs),
    usagePatterns      : LegalPatternLists,
    hasWrittenPolicies : { FALSE },
    safeguards         : Selections(SafeguardInputs),
    assessmentPath     : { "GUIDED" } ]

LegalInit ==
  /\ storage \in LegalProfiles \cup { NoProfile }
  /\ report = NoReport
  /\ assessmentData = NoProfile
  /\ locals = NoLocals
  /\ loading = TRUE
  /\ error = NoError
  /\ onReportPage

LegalSpec == LegalInit /\ [][Next]_vars

----------------------------------------------------------------------------
(* The Action Plan tab of the report *)

\* the profiles whose reports the Action Plan tab is opened on
ActionPlanProfiles ==
  [ businessName       : { "Acme Dental" },
    industryId         : { "healthcare" },
    provinceCode       : { "ON" },
    employeeCount      : { "SMALL" },
    aiTools            : { << "chatgpt" >> },
    dataTypes          : { << >>, << "health_info" >> },
    usagePatterns      : { << "ALL_EMPLOYEES" >> },
    hasWrittenPolicies : { FALSE },
    safeguards         : { << >>, << "customer_consent" >> },
    assessmentPath     : { "GUIDED" } ]

ActionPlanInit ==
  /\ storage \in ActionPlanProfiles
  /\ report = NoReport
  /\ assessmentData = NoProfile
  /\ locals = NoLocals
  /\ loading = TRUE
  /\ error = NoError
  /\ onReportPage

\* variant: the toggle marks the item completed, whatever it was
toggled_setsCompleted(prev, id) ==
  [ i \in 1..Len(prev) |->
      IF prev[i].id = id THEN [ prev[i] EXCEPT !.completed = TRUE ] ELSE prev[i] ]

\* prev.map(item => item.id === id ? {...item, completed: !item.completed} : item)
toggled(prev, id) ==
  [ i \in 1..Len(prev) |->
      IF prev[i].id = id THEN [ prev[i] EXCEPT !.completed = ~prev[i].completed ]
      ELSE prev[i] ]

\* the report is on screen and the user opens the Action Plan tab:
\* useState(actionItems) with actionItems = report.actionPlan
ActionPlanTab_mount ==
  /\ page = "report"
  /\ ~loading
  /\ error = NoError
  /\ report # NoReport
  /\ items = NoItems
  /\ scanStorage = NoScan
  /\ items' = report.actionPlan
  /\ UNCHANGED <<storage, reportVars, error, wizardVars, requests, scanStorage>>

\* the user opens another tab: the tab's state is dropped
ActionPlanTab_unmount ==
  /\ page = "report"
  /\ items # NoItems
  /\ items' = NoItems
  /\ UNCHANGED scanStorage
  /\ UNCHANGED <<storage, reportVars, error, wizardVars, requests, scanStorage>>

\* the user clicks the checkbox of one action item
ActionPlanTab_handleToggle ==
  /\ page = "report"
  /\ items # NoItems
  /\ \E i \in 1..Len(items) : items' = toggled(items, items[i].id)
  /\ UNCHANGED <<storage, reportVars, error, wizardVars, requests, scanStorage>>

ActionPlanNext ==
  \/ loadReport
  \/ mountReportContent
  \/ ActionPlanTab_mount
  \/ ActionPlanTab_unmount
  \/ ActionPlanTab_handleToggle

ActionPlanSpec == ActionPlanInit /\ [][ActionPlanNext]_vars

----------------------------------------------------------------------------
(* The assessment wizard: its five pages *)

FORM_STEPS ==
  << "business-profile", "ai-tools", "data-types", "usage-patterns", "safeguards" >>

\* identifiers the wizard pages offer in the explored runs
WizardToolInputs == << "chatgpt", "grammarly" >>

WizardDataTypeInputs == << "health_info", "customer_contact" >>

WizardPatternInputs == << "ALL_EMPLOYEES" >>

WizardSafeguardInputs == << "customer_consent", "ai_privacy_policy" >>

\* values the business-profile form may hold; "" fails the schema
BusinessForms ==
  [ businessName  : { "", "Acme Dental" },
    industryId    : { "", "healthcare" },
    provinceCode  : { "ON", "QC" },
    employeeCount : { "MICRO" } ]

\* a profile an earlier visit of the session left in the slot
StoredProfile ==
  [ businessName       |-> "Acme Dental",
    industryId         |-> "healthcare",
    provinceCode       |-> "QC",
    employeeCount      |-> "SMALL",
    aiTools            |-> << "grammarly" >>,
    dataTypes          |-> << "health_info" >>,
    usagePatterns      |-> << "ALL_EMPLOYEES" >>,
    hasWrittenPolicies |-> TRUE,
    safeguards         |-> << "customer_consent" >>,
    assessmentPath     |-> "GUIDED" ]

\* the outcomes of the POST of the assessment
SubmitOutcomes == { "ok_with_id", "ok_without_id", "not_ok", "throws" }

\* handleToggle of CheckboxGroup
handleToggle(value, optionValue) ==
  IF includes(value, optionValue)
  THEN SelectSeq(value, LAMBDA v : v # optionValue)
  ELSE Append(value, optionValue)

\* the useState / useForm defaults of the page behind a path
initialFields(path) ==
  IF path = "business-profile"
  THEN [ businessName |-> "", industryId |-> "", provinceCode |-> "ON",
         employeeCount |-> "MICRO" ]
  ELSE IF path = "ai-tools" THEN [ selectedTools |-> << >> ]
  ELSE IF path = "data-types" THEN [ selectedTypes |-> << >>, showError |-> FALSE ]
  ELSE IF path = "usage-patterns"
  THEN [ usagePatterns |-> << >>, hasWrittenPolicies |-> FALSE ]
  ELSE IF path = "safeguards" THEN [ selectedSafeguards |-> << >> ]
  ELSE NoFields

\* router.push(path): the page behind path mounts with its initial state
routerPush(path) ==
  /\ page' = path
  /\ isHydrated' = FALSE
  /\ fields' = initialFields(path)
  /\ isSubmitting' = FALSE
  /\ error' = NoError
  /\ report' = NoReport
  /\ assessmentData' = NoProfile
  /\ locals' = NoLocals
  /\ loading' = TRUE
  /\ requests' = NoRequests
  /\ items' = NoItems
  /\ UNCHANGED scanStorage
  /\ UNCHANGED hook

\* a wizard page is shown with its form (the skeleton is gone)
shows(path) == page = path /\ isHydrated

\* a change of page-local state only
onlyFields ==
  UNCHANGED <<storage, reportVars, error, page, isHydrated, isSubmitting, reportId, hook, requests, items, scanStorage>>

\* the hydration effect of a page: fields' given, nothing written
hydrated == 
  /\ isHydrated' = TRUE
  /\ UNCHANGED <<storage, reportVars, error, page, isSubmitting, reportId, hook, requests, items, scanStorage>>

(* /business-profile *)

BusinessProfilePage_hydrate ==
  /\ page = "business-profile" /\ ~isHydrated
  /\ fields' = IF storage # NoProfile
               THEN [ businessName  |-> storage.businessName,
                      industryId    |-> storage.industryId,
                      provinceCode  |-> storage.provinceCode,
                      employeeCount |-> storage.employeeCount ]
               ELSE fields
  /\ hydrated

\* the user fills the form in
BusinessProfilePage_edit ==
  /\ shows("business-profile")
  /\ \E form \in BusinessForms : fields' = form
  /\ onlyFields

\* the profile onSubmit starts from when the slot is empty
blankSelections ==
  [ businessName       |-> "",
    industryId         |-> "",
    provinceCode       |-> "ON",
    employeeCount      |-> "MICRO",
    aiTools            |-> << >>,
    dataTypes          |-> << >>,
    usagePatterns      |-> << >>,
    hasWrittenPolicies |-> FALSE,
    safeguards         |-> << >>,
    assessmentPath     |-> "GUIDED" ]

\* onSubmit, called by handleSubmit once the schema accepts the form
BusinessProfilePage_onSubmit ==
  /\ shows("business-profile")
  /\ fields.businessName # "" /\ fields.industryId # ""
  /\ storage' = [ (IF storage # NoProfile THEN storage ELSE blankSelections)
                    EXCEPT !.businessName  = fields.businessName,
                           !.industryId    = fields.industryId,
                           !.provinceCode  = fields.provinceCode,
                           !.employeeCount = fields.employeeCount ]
  /\ routerPush("ai-tools")
  /\ UNCHANGED reportId

(* /ai-tools *)

AIToolsPage_hydrate ==
  /\ page = "ai-tools" /\ ~isHydrated
  /\ fields' = IF storage # NoProfile
               THEN [ selectedTools |-> storage.aiTools ] ELSE fields
  /\ hydrated

AIToolsPage_toggle ==
  /\ shows("ai-tools")
  /\ \E i \in 1..Len(WizardToolInputs) :
       fields' = [ fields EXCEPT !.selectedTools = handleToggle(@, WizardToolInputs[i]) ]
  /\ onlyFields

AIToolsPage_handleNext ==
  /\ shows("ai-tools")
  /\ storage' = IF storage # NoProfile
                THEN [ storage EXCEPT !.aiTools = fields.selectedTools ]
                ELSE storage
  /\ routerPush("data-types")
  /\ UNCHANGED reportId

AIToolsPage_handleBack ==
  /\ shows("ai-tools")
  /\ routerPush("business-profile")
  /\ UNCHANGED <<storage, reportId>>

(* /data-types *)

DataTypesPage_hydrate ==
  /\ page = "data-types" /\ ~isHydrated
  /\ fields' = IF storage # NoProfile
               THEN [ fields EXCEPT !.selectedTypes = storage.dataTypes ] ELSE fields
  /\ hydrated

\* handleChange
DataTypesPage_handleChange ==
  /\ shows("data-types")
  /\ \E i \in 1..Len(WizardDataTypeInputs) :
       LET value == handleToggle(fields.selectedTypes, WizardDataTypeInputs[i])
       IN  fields' = [ selectedTypes |-> value,
                       showError     |-> IF Len(value) > 0 THEN FALSE ELSE fields.showError ]
  /\ onlyFields

\* variant: the step advances whatever the selection
DataTypesPage_handleNext_advancesEmpty ==
  /\ shows("data-types")
  /\ storage' = IF storage # NoProfile
                THEN [ storage EXCEPT !.dataTypes = fields.selectedTypes ]
                ELSE storage
  /\ routerPush("usage-patterns")
  /\ UNCHANGED reportId

DataTypesPage_handleNext ==
  /\ shows("data-types")
  /\ IF Len(fields.selectedTypes) = 0
     THEN /\ fields' = [ fields EXCEPT !.showError = TRUE ]
          /\ onlyFields
     ELSE /\ storage' = IF storage # NoProfile
                        THEN [ storage EXCEPT !.dataTypes = fields.selectedTypes ]
                        ELSE storage
          /\ routerPush("usage-patterns")
          /\ UNCHANGED reportId

DataTypesPage_handleBack ==
  /\ shows("data-types")
  /\ routerPush("ai-tools")
  /\ UNCHANGED <<storage, reportId>>

(* /usage-patterns *)

UsagePatternsPage_hydrate ==
  /\ page = "usage-patterns" /\ ~isHydrated
  /\ fields' = IF storage # NoProfile
               THEN [ usagePatterns      |-> storage.usagePatterns,
                      hasWrittenPolicies |-> storage.hasWrittenPolicies ]
               ELSE fields
  /\ hydrated

UsagePatternsPage_toggle ==
  /\ shows("usage-patterns")
  /\ \E i \in 1..Len(WizardPatternInputs) :
       fields' = [ fields EXCEPT !.usagePatterns = handleToggle(@, WizardPatternInputs[i]) ]
  /\ onlyFields

\* the written-policies checkbox
UsagePatternsPage_setHasWrittenPolicies ==
  /\ shows("usage-patterns")
  /\ fields' = [ fields EXCEPT !.hasWrittenPolicies = ~@ ]
  /\ onlyFields

UsagePatternsPage_handleNext ==
  /\ shows("usage-patterns")
  /\ storage' = IF storage # NoProfile
                THEN [ storage EXCEPT !.usagePatterns = fields.usagePatterns,
                                      !.hasWrittenPolicies = fields.hasWrittenPolicies ]
                ELSE storage
  /\ routerPush("safeguards")
  /\ UNCHANGED reportId

UsagePatternsPage_handleBack ==
  /\ shows("usage-patterns")
  /\ routerPush("data-types")
  /\ UNCHANGED <<storage, reportId>>

(* /safeguards *)

SafeguardsPage_hydrate ==
  /\ page = "safeguards" /\ ~isHydrated
  /\ fields' = IF storage # NoProfile
               THEN [ selectedSafeguards |-> storage.safeguards ] ELSE fields
  /\ hydrated

SafeguardsPage_toggle ==
  /\ shows("safeguards")
  /\ \E i \in 1..Len(WizardSafeguardInputs) :
       fields' = [ fields EXCEPT
                     !.selectedSafeguards = handleToggle(@, WizardSafeguardInputs[i]) ]
  /\ onlyFields

\* handleSubmit up to the await of the POST
SafeguardsPage_handleSubmit ==
  /\ shows("safeguards") /\ ~isSubmitting
  /\ IF storage = NoProfile
     THEN /\ error' = "Assessment data not found. Please start over."
          /\ requests' = NoRequests
          /\ items' = NoItems
          /\ UNCHANGED scanStorage
          /\ UNCHANGED <<storage, isSubmitting>>
     ELSE /\ storage' = [ storage EXCEPT !.safeguards = fields.selectedSafeguards ]
          /\ isSubmitting' = TRUE
          /\ error' = NoError
          /\ requests' = [ sent |-> 1, response |-> "none" ]
          /\ UNCHANGED items
          /\ UNCHANGED scanStorage
  /\ UNCHANGED <<reportVars, page, isHydrated, fields, reportId, hook>>

\* variant: a POST that fails shows an error instead of going on to the report
SafeguardsPage_fetchSettles_errorOnFailure ==
  /\ page = "safeguards" /\ isSubmitting
  /\ \E outcome \in SubmitOutcomes :
       IF outcome = "ok_with_id"
       THEN /\ reportId' = "a1"
            /\ routerPush("report")
       ELSE /\ error' = "Failed to submit assessment"
            /\ isSubmitting' = FALSE
            /\ UNCHANGED <<reportVars, page, isHydrated, fields, reportId, hook, requests, items, scanStorage>>
  /\ UNCHANGED storage

\* handleSubmit from the settling of the POST on: the try, the catch, the finally
SafeguardsPage_fetchSettles ==
  /\ page = "safeguards" /\ isSubmitting
  /\ \E outcome \in SubmitOutcomes :
       reportId' = IF outcome = "ok_with_id" THEN "a1" ELSE "demo-1"
  /\ routerPush("report")
  /\ UNCHANGED storage

SafeguardsPage_handleBack ==
  /\ shows("safeguards") /\ ~isSubmitting
  /\ routerPush("usage-patterns")
  /\ UNCHANGED <<storage, reportId>>

----------------------------------------------------------------------------
(* The assessment wizard: the useMultiStepForm hook *)

defaultFormData ==
  [ businessName       |-> "",
    industryId         |-> "",
    provinceCode       |-> "ON",
    employeeCount      |-> "MICRO",
    aiTools            |-> << >>,
    dataTypes          |-> << >>,
    usagePatterns      |-> << >>,
    hasWrittenPolicies |-> FALSE,
    safeguards         |-> << >>,
    assessmentPath     |-> "GUIDED" ]

initialStep == 1

totalSteps == Len(FORM_STEPS)

\* the steps goToStep is called with: every step and one beyond each end
StepInputs == 0..(totalSteps + 1)

\* the partial profiles updateFormData is called with
UpdateInputs ==
  { [ aiTools |-> << "chatgpt" >> ],
    [ safeguards |-> << "customer_consent" >> ],
    [ businessName |-> "Acme Dental", provinceCode |-> "QC" ] }

\* { ...prev, ...data }
spread(prev, data) ==
  [ k \in DOMAIN prev |-> IF k \in DOMAIN data THEN data[k] ELSE prev[k] ]

\* the hook after its first render; its two effects have yet to run.
\* mounting: the effects of the mount, and of the render they cause, are not over
mountedHook ==
  [ currentStep |-> initialStep,
    formData    |-> defaultFormData,
    isHydrated  |-> FALSE,
    queued      |-> NoQueued,
    phase       |-> "hydrateEffect",
    mounting    |-> TRUE,
    path        |-> FORM_STEPS[initialStep] ]

\* a step of the hook: the pages' state stays as it is
onlyHook ==
  UNCHANGED <<reportVars, error, page, isHydrated, fields, isSubmitting, reportId, requests, items, scanStorage>>

\* the hydrate effect: the state updates are queued for the next render
hydrateEffect ==
  /\ hook # NoHook /\ hook.phase = "hydrateEffect"
  /\ hook' = [ hook EXCEPT
                 !.queued = [ formData   |-> IF storage # NoProfile THEN storage
                                             ELSE hook.formData,
                              isHydrated |-> TRUE ],
                 !.phase  = "persistEffect" ]
  /\ UNCHANGED storage
  /\ onlyHook

\* variant: the effect writes whether or not the form is hydrated
persisted_unguarded(h, stored) == h.formData

\* the slot after the persist effect ran with the state h of its render
persisted(h, stored) == IF h.isHydrated THEN h.formData ELSE stored

\* the persist effect of the last render
persistEffect ==
  /\ hook # NoHook /\ hook.phase = "persistEffect"
  /\ storage' = persisted(hook, storage)
  /\ hook' = [ hook EXCEPT !.phase = IF hook.queued # NoQueued THEN "render" ELSE "idle",
                           !.mounting = hook.queued # NoQueued /\ @ ]
  /\ onlyHook

\* the render that applies the queued state; formData or isHydrated changed,
\* so the persist effect runs after it
render ==
  /\ hook # NoHook /\ hook.phase = "render"
  /\ hook' = [ hook EXCEPT !.formData   = hook.queued.formData,
                           !.isHydrated = hook.queued.isHydrated,
                           !.queued     = NoQueued,
                           !.phase      = "persistEffect" ]
  /\ UNCHANGED storage
  /\ onlyHook

updateFormData ==
  /\ hook # NoHook /\ hook.phase = "idle"
  /\ \E data \in UpdateInputs :
       hook' = [ hook EXCEPT
                   !.queued = [ formData   |-> spread(hook.formData, data),
                                isHydrated |-> hook.isHydrated ],
                   !.phase  = "render" ]
  /\ UNCHANGED storage
  /\ onlyHook

\* variant: goToStep takes any step number
goToStepTo_unguarded(h, step) == [ h EXCEPT !.currentStep = step ]

\* the hook after goToStep(step)
goToStepTo(h, step) ==
  IF step >= 1 /\ step <= totalSteps
  THEN [ h EXCEPT !.currentStep = step, !.path = FORM_STEPS[step] ]
  ELSE h

goToStep ==
  /\ hook # NoHook /\ hook.phase = "idle"
  /\ \E step \in StepInputs : hook' = goToStepTo(hook, step)
  /\ UNCHANGED storage
  /\ onlyHook

goToNextStep ==
  /\ hook # NoHook /\ hook.phase = "idle"
  /\ hook' = IF hook.currentStep < totalSteps
             THEN goToStepTo(hook, hook.currentStep + 1) ELSE hook
  /\ UNCHANGED storage
  /\ onlyHook

goToPreviousStep ==
  /\ hook # NoHook /\ hook.phase = "idle"
  /\ hook' = IF hook.currentStep > 1
             THEN goToStepTo(hook, hook.currentStep - 1) ELSE hook
  /\ UNCHANGED storage
  /\ onlyHook

\* resetForm: the slot is cleared; the form data, when it changes, is rendered
\* and then persisted
resetForm ==
  /\ hook # NoHook /\ hook.phase = "idle"
  /\ storage' = NoProfile
  /\ hook' = [ hook EXCEPT
                 !.currentStep = 1,
                 !.queued = IF hook.formData # defaultFormData
                            THEN [ formData |-> defaultFormData,
                                   isHydrated |-> hook.isHydrated ]
                            ELSE NoQueued,
                 !.phase  = IF hook.formData # defaultFormData THEN "render" ELSE "idle" ]
  /\ onlyHook

----------------------------------------------------------------------------
(* The wizard: the browser opens one of its pages, or a component mounts the hook *)

WizardInit ==
  /\ storage \in { NoProfile, StoredProfile }
  /\ report = NoReport
  /\ assessmentData = NoProfile
  /\ locals = NoLocals
  /\ loading = TRUE
  /\ error = NoError
  /\ isHydrated = FALSE
  /\ isSubmitting = FALSE
  /\ reportId = "none"
  /\ requests = NoRequests
  /\ items = NoItems
  /\ scanStorage = NoScan
  /\ \/ /\ page \in { FORM_STEPS[i] : i \in 1..Len(FORM_STEPS) }
        /\ fields = initialFields(page)
        /\ hook = NoHook
     \/ /\ page = "none"
        /\ fields = NoFields
        /\ hook = mountedHook

PagesNext ==
  \/ BusinessProfilePage_hydrate
  \/ BusinessProfilePage_edit
  \/ BusinessProfilePage_onSubmit
  \/ AIToolsPage_hydrate
  \/ AIToolsPage_toggle
  \/ AIToolsPage_handleNext
  \/ AIToolsPage_handleBack
  \/ DataTypesPage_hydrate
  \/ DataTypesPage_handleChange
  \/ DataTypesPage_handleNext
  \/ DataTypesPage_handleBack
  \/ UsagePatternsPage_hydrate
  \/ UsagePatternsPage_toggle
  \/ UsagePatternsPage_setHasWrittenPolicies
  \/ UsagePatternsPage_handleNext
  \/ UsagePatternsPage_handleBack
  \/ SafeguardsPage_hydrate
  \/ SafeguardsPage_toggle
  \/ SafeguardsPage_handleSubmit
  \/ SafeguardsPage_fetchSettles
  \/ SafeguardsPage_handleBack
  \/ loadReport
  \/ mountReportContent

HookNext ==
  \/ hydrateEffect
  \/ persistEffect
  \/ render
  \/ updateFormData
  \/ goToStep
  \/ goToNextStep
  \/ goToPreviousStep
  \/ resetForm

WizardNext == PagesNext \/ HookNext

WizardSpec == WizardInit /\ [][WizardNext]_vars

\* the POST of the assessment settles: fetch resolves or rejects
WizardFairSpec == WizardSpec /\ WF_vars(SafeguardsPage_fetchSettles)

----------------------------------------------------------------------------
(* The quick scan: /quick-scan and /quick-scan/results *)

\* JavaScript null, as the scan reports a field it did not detect
Null == "<null>"

\* the values an if or an || takes for false
falsy(v) == v \in { "", Null }

\* a || b
or(a, b) == IF falsy(a) THEN b ELSE a

\* businessName.trim()
trim(s) == IF s = "  " THEN "" ELSE s

\* the addresses typed into the scan form: the text, whether it starts with
\* http:// or https://, and whether new URL() accepts it once it does
Urls ==
  { [ text |-> "",            scheme |-> FALSE, wellFormed |-> FALSE ],
    [ text |-> "not a url",   scheme |-> FALSE, wellFormed |-> FALSE ],
    [ text |-> "acme.ca",     scheme |-> FALSE, wellFormed |-> TRUE ],
    [ text |-> "example.com", scheme |-> TRUE,  wellFormed |-> TRUE ],
    [ text |-> "demo.ca",     scheme |-> FALSE, wellFormed |-> TRUE ] }

\* https:// is put before an address that has no scheme
normalizedUrl(url) == [ url EXCEPT !.scheme = TRUE ]

\* normalizedUrl.toLowerCase().includes(word)
urlIncludes(url, word) ==
  \/ word = "example"     /\ url.text = "example.com"
  \/ word = "example.com" /\ url.text = "example.com"
  \/ word = "demo"        /\ url.text = "demo.ca"

\* the mock scan used when POST /scraper/scan answers with a non-success status
mockDataNotOk(url) ==
  [ websiteUrl    |-> url,
    extractedInfo |->
      [ businessName         |-> "Demo Company Inc.",
        industryDetected     |-> "consulting",
        provinceDetected     |-> "ON",
        aiToolsMentioned     |-> << "chatgpt", "github_copilot" >>,
        dataTypesIndicated   |-> << "customer_data", "employee_data" >>,
        hasPrivacyPolicy     |-> TRUE,
        mentionsCustomerData |-> TRUE,
        mentionsConsent      |-> FALSE,
        mentionsPipeda       |-> FALSE ],
    missingRequiredFields |-> << "employee_count", "specific_ai_use_cases" >> ]

\* the mock scan used when the fetch throws: by the words in the address
mockDataThrown(url) ==
  IF urlIncludes(url, "example")
  THEN [ websiteUrl    |-> url,
         extractedInfo |->
           [ businessName         |-> "Example Corp",
             industryDetected     |-> "tech_software",
             provinceDetected     |-> "BC",
             aiToolsMentioned     |-> << "chatgpt", "github_copilot" >>,
             dataTypesIndicated   |-> << "customer_data", "employee_data" >>,
             hasPrivacyPolicy     |-> TRUE,
             mentionsCustomerData |-> TRUE,
             mentionsConsent      |-> TRUE,
             mentionsPipeda       |-> TRUE ],
         missingRequiredFields |-> << >> ]
  ELSE IF urlIncludes(url, "demo")
  THEN [ websiteUrl    |-> url,
         extractedInfo |->
           [ businessName         |-> "Demo Company Inc.",
             industryDetected     |-> "consulting",
             provinceDetected     |-> "ON",
             aiToolsMentioned     |-> << "chatgpt" >>,
             dataTypesIndicated   |-> << "customer_data" >>,
             hasPrivacyPolicy     |-> TRUE,
             mentionsCustomerData |-> TRUE,
             mentionsConsent      |-> FALSE,
             mentionsPipeda       |-> FALSE ],
         missingRequiredFields |-> << "employee_count" >> ]
  ELSE [ websiteUrl    |-> url,
         extractedInfo |->
           [ businessName         |-> "Sample Business Ltd.",
             industryDetected     |-> "consulting",
             provinceDetected     |-> "ON",
             aiToolsMentioned     |-> << "chatgpt", "github_copilot" >>,
             dataTypesIndicated   |-> << "customer_data", "employee_data" >>,
             hasPrivacyPolicy     |-> TRUE,
             mentionsCustomerData |-> TRUE,
             mentionsConsent      |-> FALSE,
             mentionsPipeda       |-> FALSE ],
         missingRequiredFields |-> << >> ]

\* what POST /scraper/scan may answer with: a site where nothing but the
\* province was detected, and a site where every field was
ApiScanResponses ==
  { [ business_name          |-> Null,
      industry_detected      |-> Null,
      province_detected      |-> "QC",
      ai_tools_mentioned     |-> << >>,
      data_types_indicated   |-> << >>,
      has_privacy_policy     |-> FALSE,
      mentions_customer_data |-> FALSE,
      mentions_consent       |-> FALSE,
      mentions_pipeda        |-> FALSE,
      missing_required_fields |-> << "business_name", "industry", "employee_count" >> ],
    [ business_name          |-> "Acme Dental",
      industry_detected      |-> "healthcare",
      province_detected      |-> "ON",
      ai_tools_mentioned     |-> << "chatgpt" >>,
      data_types_indicated   |-> << "health_info" >>,
      has_privacy_policy     |-> TRUE,
      mentions_customer_data |-> FALSE,
      mentions_consent       |-> TRUE,
      mentions_pipeda        |-> TRUE,
      missing_required_fields |-> << "employee_count" >> ] }

\* transformScanResponse(apiResponse): snake_case to camelCase
transformScanResponse(url, apiResponse) ==
  [ websiteUrl    |-> url,
    extractedInfo |->
      [ businessName         |-> apiResponse.business_name,
        industryDetected     |-> apiResponse.industry_detected,
        provinceDetected     |-> apiResponse.province_detected,
        aiToolsMentioned     |-> apiResponse.ai_tools_mentioned,
        dataTypesIndicated   |-> apiResponse.data_types_indicated,
        hasPrivacyPolicy     |-> apiResponse.has_privacy_policy,
        mentionsCustomerData |-> apiResponse.mentions_customer_data,
        mentionsConsent      |-> apiResponse.mentions_consent,
        mentionsPipeda       |-> apiResponse.mentions_pipeda ],
    missingRequiredFields |-> apiResponse.missing_required_fields ]

ScanOutcomes == { "ok", "not_ok", "throws" }

\* no scan loaded on the results page
NoScanResults == [ none |-> "scanResults" ]

\* the useState defaults of the two quick-scan pages
quickScanFields(path) ==
  IF path = "quick-scan/results"
  THEN [ scanResults         |-> NoScanResults,
         businessName        |-> "",
         industryId          |-> "",
         provinceCode        |-> "",
         employeeCount       |-> "",
         additionalDataTypes |-> << >>,
         additionalAiTools   |-> << >>,
         allRequiredFound    |-> FALSE,
         showOptionalModal   |-> FALSE ]
  ELSE NoFields

\* router.push(path) from a quick-scan page: the page behind path mounts
opens(path) ==
  /\ page' = path
  /\ isHydrated' = FALSE
  /\ isSubmitting' = FALSE
  /\ error' = NoError
  /\ report' = NoReport
  /\ assessmentData' = NoProfile
  /\ locals' = NoLocals
  /\ loading' = TRUE
  /\ requests' = NoRequests
  /\ items' = NoItems
  /\ UNCHANGED hook

\* a change of the state of a quick-scan page only
onlyQuickScanFields ==
  UNCHANGED <<storage, reportVars, error, page, isHydrated, isSubmitting, reportId, hook,
              requests, items, scanStorage>>

(* /quick-scan: fields is the address typed, isSubmitting is isScanning *)

QuickScanPage_setUrl ==
  /\ page = "quick-scan" /\ ~isSubmitting
  /\ \E url \in Urls : fields' = url
  /\ onlyQuickScanFields

\* handleSubmit up to the fetch
QuickScanPage_handleSubmit ==
  /\ page = "quick-scan" /\ ~isSubmitting
  /\ IF trim(fields.text) = ""
     THEN /\ error' = "Please enter your website URL"
          /\ UNCHANGED <<isSubmitting, requests>>
     ELSE IF ~normalizedUrl(fields).wellFormed
     THEN /\ error' = "Please enter a valid website URL"
          /\ UNCHANGED <<isSubmitting, requests>>
     ELSE /\ error' = NoError
          /\ isSubmitting' = TRUE
          /\ requests' = [ sent |-> 1, response |-> "none" ]
  /\ UNCHANGED <<storage, reportVars, page, isHydrated, fields, reportId, hook, items,
                 scanStorage>>

\* handleSubmit from the fetch on: the scan, or a mock of it, is stored and
\* the results page opens
QuickScanPage_fetchSettles ==
  /\ page = "quick-scan" /\ isSubmitting
  /\ \E fetched \in ScanOutcomes, apiResponse \in ApiScanResponses :
       scanStorage' =
         IF fetched = "ok" THEN transformScanResponse(normalizedUrl(fields), apiResponse)
         ELSE IF fetched = "not_ok" THEN mockDataNotOk(normalizedUrl(fields))
         ELSE mockDataThrown(normalizedUrl(fields))
  /\ opens("quick-scan/results")
  /\ fields' = quickScanFields("quick-scan/results")
  /\ UNCHANGED <<storage, reportId>>

(* /quick-scan/results: isHydrated is ~isLoading *)

\* the effect of the mount: the scan is loaded and the form pre-filled, or,
\* with no scan in the slot, the scan page is opened again
QuickScanResultsPage_loadScan ==
  /\ page = "quick-scan/results" /\ ~isHydrated
  /\ IF scanStorage # NoScan
     THEN LET data == scanStorage
              info == data.extractedInfo
          IN  /\ fields' =
                   [ fields EXCEPT
                       !.scanResults   = data,
                       !.businessName  = IF falsy(info.businessName) THEN @
                                         ELSE info.businessName,
                       !.industryId    = IF falsy(info.industryDetected) THEN @
                                         ELSE info.industryDetected,
                       !.provinceCode  = IF falsy(info.provinceDetected) THEN @
                                         ELSE info.provinceDetected,
                       !.employeeCount = IF urlIncludes(data.websiteUrl, "example.com")
                                         THEN "SMALL" ELSE @,
                       !.allRequiredFound =
                          /\ ~falsy(info.businessName)
                          /\ ~falsy(info.industryDetected)
                          /\ ~falsy(info.provinceDetected)
                          /\ ~includes(data.missingRequiredFields, "employee_count") ]
              /\ isHydrated' = TRUE
              /\ UNCHANGED <<storage, reportVars, error, page, isSubmitting, reportId, hook,
                             requests, items, scanStorage>>
     ELSE /\ opens("quick-scan")
          /\ fields' = [ text |-> "", scheme |-> FALSE, wellFormed |-> FALSE ]
          /\ UNCHANGED <<storage, reportId, scanStorage>>

\* the timer set by the effect: every required field was found
QuickScanResultsPage_showOptionalModal ==
  /\ shows("quick-scan/results")
  /\ fields.allRequiredFound
  /\ fields' = [ fields EXCEPT !.showOptionalModal = TRUE, !.allRequiredFound = FALSE ]
  /\ onlyQuickScanFields

\* "Yes, Add More Details"
QuickScanResultsPage_closeOptionalModal ==
  /\ shows("quick-scan/results")
  /\ fields.showOptionalModal
  /\ fields' = [ fields EXCEPT !.showOptionalModal = FALSE ]
  /\ onlyQuickScanFields

\* what the user types or selects in the four required fields
NameInputs == { "", "  ", "Acme Dental" }
IndustryInputs == { "", "healthcare" }
ProvinceCodeInputs == { "", "QC" }
EmployeeCountInputs == { "", "MICRO" }

QuickScanResultsPage_edit ==
  /\ shows("quick-scan/results") /\ ~isSubmitting /\ ~fields.showOptionalModal
  /\ \/ \E v \in NameInputs : fields' = [ fields EXCEPT !.businessName = v ]
     \/ \E v \in IndustryInputs : fields' = [ fields EXCEPT !.industryId = v ]
     \/ \E v \in ProvinceCodeInputs : fields' = [ fields EXCEPT !.provinceCode = v ]
     \/ \E v \in EmployeeCountInputs : fields' = [ fields EXCEPT !.employeeCount = v ]
  /\ onlyQuickScanFields

QuickScanResultsPage_toggleDataType ==
  /\ shows("quick-scan/results") /\ ~isSubmitting /\ ~fields.showOptionalModal
  /\ fields' = [ fields EXCEPT !.additionalDataTypes = handleToggle(@, "health_info") ]
  /\ onlyQuickScanFields

QuickScanResultsPage_toggleAiTool ==
  /\ shows("quick-scan/results") /\ ~isSubmitting /\ ~fields.showOptionalModal
  /\ fields' = [ fields EXCEPT !.additionalAiTools = handleToggle(@, "claude") ]
  /\ onlyQuickScanFields

\* const canSubmit = businessName.trim() && industryId && provinceCode && employeeCount
canSubmit(f) ==
  /\ trim(f.businessName) # ""
  /\ ~falsy(f.industryId)
  /\ ~falsy(f.provinceCode)
  /\ ~falsy(f.employeeCount)

\* the message of the first required field that fails the validation
firstError(f) ==
  IF trim(f.businessName) = "" THEN "Please enter your business name"
  ELSE IF falsy(f.industryId) THEN "Please select your industry"
  ELSE IF falsy(f.provinceCode) THEN "Please select your province"
  ELSE IF falsy(f.employeeCount) THEN "Please select your employee count"
  ELSE NoError

\* the buttons that call handleSubmit(skipMissing): "Get My Report" with false;
\* "Skip & Use Scraped Data Only" and the modal's "Generate Report" with true
offered(f, skipMissing) ==
  IF skipMissing
  THEN \/ f.showOptionalModal
       \/ ~isSubmitting /\ ~f.showOptionalModal /\ f.scanResults.missingRequiredFields = << >>
  ELSE ~isSubmitting /\ canSubmit(f) /\ ~f.showOptionalModal

\* the required fields pass, or are not looked at
validated(f, skipMissing) == skipMissing \/ firstError(f) = NoError

\* handleSubmit(skipMissing) up to the fetch
QuickScanResultsPage_handleSubmit ==
  /\ shows("quick-scan/results")
  /\ fields.scanResults # NoScanResults
  /\ \E skipMissing \in BOOLEAN :
       /\ offered(fields, skipMissing)
       /\ IF ~validated(fields, skipMissing)
          THEN /\ error' = firstError(fields)
               /\ UNCHANGED <<isSubmitting, requests>>
          ELSE /\ error' = NoError
               /\ isSubmitting' = TRUE
               /\ requests' = [ sent |-> 1, response |-> "none" ]
  /\ fields' = [ fields EXCEPT !.showOptionalModal = FALSE ]
  /\ UNCHANGED <<storage, reportVars, page, isHydrated, reportId, hook, items, scanStorage>>

quickScanUsagePatterns(info) ==
  IF info.mentionsCustomerData THEN << "CUSTOMER_SERVICE" >> ELSE << "INTERNAL_ONLY" >>

\* the assessment data handleSubmit creates for the report
quickScanAssessmentData(f) ==
  LET info == f.scanResults.extractedInfo
  IN  [ businessName       |-> or(or(f.businessName, info.businessName), ""),
        industryId         |-> or(or(f.industryId, info.industryDetected), ""),
        provinceCode       |-> or(or(f.provinceCode, info.provinceDetected), "ON"),
        employeeCount      |-> or(f.employeeCount, "SMALL"),
        aiTools            |-> info.aiToolsMentioned \o f.additionalAiTools,
        dataTypes          |-> info.dataTypesIndicated \o f.additionalDataTypes,
        usagePatterns      |-> quickScanUsagePatterns(info),
        hasWrittenPolicies |-> info.hasPrivacyPolicy,
        safeguards         |->
          (IF info.hasPrivacyPolicy THEN << "ai_privacy_policy" >> ELSE << >>)
            \o (IF info.mentionsConsent THEN << "customer_consent" >> ELSE << >>)
            \o (IF info.mentionsPipeda THEN << "pipeda_compliance" >> ELSE << >>),
        assessmentPath     |-> "QUICK_SCAN" ]

\* handleSubmit from the fetch on: on every outcome the assessment data is
\* stored, the scan removed and the report page opened
QuickScanResultsPage_fetchSettles ==
  /\ page = "quick-scan/results" /\ isSubmitting
  /\ \E fetched \in SubmitOutcomes :
       reportId' = IF fetched = "ok_with_id" THEN "a1" ELSE "mock-1"
  /\ storage' = quickScanAssessmentData(fields)
  /\ scanStorage' = NoScan
  /\ opens("report")
  /\ fields' = NoFields

QuickScanInit ==
  /\ storage = NoProfile
  /\ report = NoReport
  /\ assessmentData = NoProfile
  /\ locals = NoLocals
  /\ loading = TRUE
  /\ error = NoError
  /\ page = "quick-scan"
  /\ isHydrated = FALSE
  /\ fields = [ text |-> "", scheme |-> FALSE, wellFormed |-> FALSE ]
  /\ isSubmitting = FALSE
  /\ reportId = "none"
  /\ hook = NoHook
  /\ requests = NoRequests
  /\ items = NoItems
  /\ scanStorage = NoScan

QuickScanNext ==
  \/ QuickScanPage_setUrl
  \/ QuickScanPage_handleSubmit
  \/ QuickScanPage_fetchSettles
  \/ QuickScanResultsPage_loadScan
  \/ QuickScanResultsPage_showOptionalModal
  \/ QuickScanResultsPage_closeOptionalModal
  \/ QuickScanResultsPage_edit
  \/ QuickScanResultsPage_toggleDataType
  \/ QuickScanResultsPage_toggleAiTool
  \/ QuickScanResultsPage_handleSubmit
  \/ QuickScanResultsPage_fetchSettles
  \/ loadReport
  \/ mountReportContent

QuickScanSpec == QuickScanInit /\ [][QuickScanNext]_vars

----------------------------------------------------------------------------
(* The application: a session that starts on the guided wizard or on the quick scan *)

AppInit == WizardInit \/ QuickScanInit

AppNext == WizardNext \/ QuickScanNext

AppSpec == AppInit /\ [][AppNext]_vars

\* a report derived locally is on the page
Generated == locals # NoLocals /\ report # NoReport

----------------------------------------------------------------------------
(* Profiles compared with the stored one *)

\* the stored profile with one more entry at the end of a list
withSafeguard(data, sg) == [data EXCEPT !.safeguards = Append(@, sg)]

withDataType(data, dt) == [data EXCEPT !.dataTypes = Append(@, dt)]

withPattern(data, p) == [data EXCEPT !.usagePatterns = Append(@, p)]

\* the stored profile without the aiTools entries the catalog lacks
withoutUnknownTools(data) == [data EXCEPT !.aiTools = catalogToolsOf(@)]

\* the stored profile with "claude" in place of every aiTools entry the catalog lacks
withUnknownToolsReplaced(data) ==
  [data EXCEPT !.aiTools =
     [i \in 1..Len(@) |-> IF isCatalogTool(@[i]) THEN @[i] ELSE "claude"]]

hasUnknownTool(data) == Len(catalogToolsOf(data.aiTools)) < Len(data.aiTools)

\* nothing selected and written policies in place
isEmptyProfile(data) ==
  /\ data.dataTypes = << >>
  /\ data.aiTools = << >>
  /\ data.usagePatterns = << >>
  /\ data.safeguards = << >>
  /\ data.hasWrittenPolicies

----------------------------------------------------------------------------
(* C1 *)

\* C1: the final risk score of every locally derived report is an integer
\* in the closed range 0..100, whatever the profile.
C1_ScoreInRange ==
  Generated =>
    /\ report.riskScore \in 0..100
    /\ locals.finalScore \in 0..100

\* the safeguard credit exceeds the base score and the score stops at 0
C1_Witness ==
  /\ Generated
  /\ locals.baseScore < locals.safeguardCredit
  /\ report.riskScore = 0

----------------------------------------------------------------------------
(* C2 *)

\* C2: the level report generation assigns to a score is the level
\* getRiskLevel returns for it: the level of every derived report equals
\* getRiskLevel of its score.
C2_LevelAgreesWithGetRiskLevel ==
  Generated => report.riskLevel = getRiskLevel(report.riskScore)

\* a derived report whose score sits on the LOW/MEDIUM threshold
C2_Witness ==
  /\ Generated
  /\ report.riskScore = 25
  /\ report.riskLevel = "LOW"

----------------------------------------------------------------------------
(* C3 *)

\* C3 as stated: a profile with nothing selected and written policies
\* scores 0 and is LOW.
C3_Original ==
  (Generated /\ isEmptyProfile(storage)) =>
    /\ report.riskScore = 0
    /\ report.riskLevel = "LOW"

\* C3 (amended): a profile with no data types, no AI tools, no usage
\* patterns, no safeguards and written policies scores 10, the default
\* usage-pattern contribution, and its level is LOW.
C3_EmptyProfileScoresTen ==
  (Generated /\ isEmptyProfile(storage)) =>
    /\ report.riskScore = 10
    /\ report.riskLevel = "LOW"

\* the report of an empty profile has been derived
C3_Witness ==
  /\ Generated
  /\ isEmptyProfile(storage)
  /\ locals.patternRisk = 10

----------------------------------------------------------------------------
(* C4 *)

----------------------------------------------------------------------------
(* C5 *)

----------------------------------------------------------------------------
(* C6 *)

----------------------------------------------------------------------------
(* C7 *)

\* the value the specification gives each usage pattern
patternValue(p) ==
  IF p = "NO_RESTRICTIONS" THEN 20
  ELSE IF p = "ALL_EMPLOYEES" THEN 15
  ELSE IF p = "CONTRACTORS" THEN 12
  ELSE 10

\* the largest of a non-empty set of numbers
Largest(S) == CHOOSE x \in S : \A y \in S : y <= x

\* C7: the usage-pattern component is the value of the single worst pattern
\* selected (10 when none is), never a sum, and selecting one more pattern
\* that ranks no higher leaves the score unchanged.
C7_WorstPatternWins ==
  Generated =>
    /\ locals.patternRisk =
         Largest({10} \cup { patternValue(storage.usagePatterns[i]) :
                              i \in 1..Len(storage.usagePatterns) })
    /\ \A i \in 1..Len(USAGE_PATTERN_OPTIONS) :
         patternValue(USAGE_PATTERN_OPTIONS[i]) <= locals.patternRisk =>
           finalScore(withPattern(storage, USAGE_PATTERN_OPTIONS[i])) = report.riskScore

\* ALL_EMPLOYEES and CONTRACTORS are both selected and the component is 15
C7_Witness ==
  /\ Generated
  /\ includes(storage.usagePatterns, "ALL_EMPLOYEES")
  /\ includes(storage.usagePatterns, "CONTRACTORS")
  /\ locals.patternRisk = 15

----------------------------------------------------------------------------
(* C8 *)

\* the safeguards of the catalog that the stored profile has not selected
unselectedSafeguards ==
  { SAFEGUARDS[i].value : i \in 1..Len(SAFEGUARDS) }
    \ { storage.safeguards[i] : i \in 1..Len(storage.safeguards) }

\* C8: adding a safeguard that is not yet selected, all other fields
\* unchanged, never increases the final score.
C8_SafeguardNeverIncreases ==
  Generated =>
    \A sg \in unselectedSafeguards :
      generateDemoReport(withSafeguard(storage, sg)).riskScore <= report.riskScore

\* one more safeguard lowers the score of the derived report by 8
C8_Witness ==
  /\ Generated
  /\ report.riskScore >= 8
  /\ \E sg \in unselectedSafeguards :
       generateDemoReport(withSafeguard(storage, sg)).riskScore = report.riskScore - 8

----------------------------------------------------------------------------
(* C9 *)

\* the data types of the catalog that the stored profile has not selected
unselectedDataTypes ==
  { DATA_TYPES[i].value : i \in 1..Len(DATA_TYPES) }
    \ { storage.dataTypes[i] : i \in 1..Len(storage.dataTypes) }

\* C9: adding a data type that is not yet selected, all other fields
\* unchanged, never decreases the final score.
C9_DataTypeNeverDecreases ==
  Generated =>
    \A dt \in unselectedDataTypes :
      generateDemoReport(withDataType(storage, dt)).riskScore >= report.riskScore

\* one more data type takes the sum past 100 and the score stays within the cap
C9_Witness ==
  /\ Generated
  /\ locals.dataRisk + locals.toolRisk + locals.patternRisk < 100
  /\ \E dt \in unselectedDataTypes :
       /\ dataRisk(withDataType(storage, dt)) + locals.toolRisk + locals.patternRisk > 100
       /\ generateDemoReport(withDataType(storage, dt)).riskScore > report.riskScore

----------------------------------------------------------------------------
(* C10 *)

\* C10: in every derived report the top-level riskScore and riskLevel are
\* the computed final score and its level, and the executive summary records
\* the same score and level.
C10_ScoreAndLevelSameEverywhere ==
  Generated =>
    /\ report.riskScore = locals.finalScore
    /\ report.riskLevel = getRiskLevel(locals.finalScore)
    /\ report.executiveSummary.riskScore = report.riskScore
    /\ report.executiveSummary.riskLevel = report.riskLevel

\* a derived report whose score and level differ from those of the base score
C10_Witness ==
  /\ Generated
  /\ locals.baseScore # locals.finalScore
  /\ getRiskLevel(locals.baseScore) # getRiskLevel(locals.finalScore)
  /\ report.executiveSummary.riskScore = locals.finalScore

----------------------------------------------------------------------------
(* C11 *)

\* values the fields outside the scoring take in the comparison
OtherIndustries == { "healthcare", "retail" }

OtherProvinces == { "ON", "QC", "NB" }

OtherPaths == { "GUIDED", "QUICK_SCAN" }

OtherNames == { "Acme Dental", "" }

OtherEmployeeCounts == { "SMALL", "MICRO" }

\* the stored profile with the five fields outside the scoring replaced
withOtherFields(data, ind, prov, path, name, emp) ==
  [data EXCEPT !.industryId = ind, !.provinceCode = prov, !.assessmentPath = path,
               !.businessName = name, !.employeeCount = emp]

\* C11: a profile that differs from the stored one only in industryId,
\* provinceCode, assessmentPath, businessName or employeeCount receives the
\* score and the level of the generated report.
C11_ScoreIgnoresOtherFields ==
  Generated =>
    \A ind \in OtherIndustries, prov \in OtherProvinces, path \in OtherPaths,
       name \in OtherNames, emp \in OtherEmployeeCounts :
      LET other == generateDemoReport(withOtherFields(storage, ind, prov, path, name, emp))
      IN  /\ other.riskScore = report.riskScore
          /\ other.riskLevel = report.riskLevel

\* a Quebec profile with a positive score has its report
C11_Witness ==
  /\ Generated
  /\ storage.provinceCode = "QC"
  /\ report.riskScore >= 40

----------------------------------------------------------------------------
(* C12 *)

\* list with its entries in reverse order
RECURSIVE reversed(_)
reversed(list) ==
  IF list = << >> THEN << >> ELSE Append(reversed(Tail(list)), Head(list))

\* C12 (as stated): reordering aiTools, dataTypes and safeguards, or repeating
\* an identifier one of them already holds, changes neither the score nor the level.
C12_Original ==
  Generated =>
    /\ LET other == generateDemoReport(
                      [storage EXCEPT !.aiTools = reversed(@),
                                      !.dataTypes = reversed(@),
                                      !.safeguards = reversed(@)])
       IN  other.riskScore = report.riskScore /\ other.riskLevel = report.riskLevel
    /\ \A i \in 1..Len(storage.aiTools) :
         generateDemoReport([storage EXCEPT !.aiTools = Append(@, @[i])]).riskScore
           = report.riskScore
    /\ \A i \in 1..Len(storage.dataTypes) :
         generateDemoReport([storage EXCEPT !.dataTypes = Append(@, @[i])]).riskScore
           = report.riskScore
    /\ \A i \in 1..Len(storage.safeguards) :
         generateDemoReport([storage EXCEPT !.safeguards = Append(@, @[i])]).riskScore
           = report.riskScore

----------------------------------------------------------------------------
(* C13 *)

hasBothPipedaSafeguards(data) ==
  /\ includes(data.safeguards, "customer_consent")
  /\ includes(data.safeguards, "ai_privacy_policy")

\* C13 (as stated): pipedaStatus.compliant is true exactly when customer_consent
\* and ai_privacy_policy are both selected, and the PIPEDA issue record is in
\* pipedaStatus.issues exactly when pipedaStatus.compliant is false.
C13_Original ==
  Generated =>
    LET status == report.legalCompliance.pipedaStatus
    IN  /\ status.compliant <=> hasBothPipedaSafeguards(storage)
        /\ includes(status.issues, pipedaIssue) <=> ~status.compliant

----------------------------------------------------------------------------
(* C14 *)

\* C14: billC27Status.prepared is true exactly when at least 3 safeguards are
\* selected, provincialStatus.compliant exactly when at least 2 are; a report
\* marked prepared is also marked provincially compliant.
C14_SafeguardCountThresholds ==
  Generated =>
    LET legal == report.legalCompliance
    IN  /\ legal.billC27Status.prepared <=> Len(storage.safeguards) >= 3
        /\ legal.provincialStatus.compliant <=> Len(storage.safeguards) >= 2
        /\ legal.billC27Status.prepared => legal.provincialStatus.compliant

\* a report between the two thresholds: provincially compliant, not prepared
C14_Witness ==
  /\ Generated
  /\ Len(storage.safeguards) = 2
  /\ report.legalCompliance.provincialStatus.compliant
  /\ ~report.legalCompliance.billC27Status.prepared

----------------------------------------------------------------------------
(* C15 *)

hasPrivacyOfficerIssue(issues) ==
  \E i \in 1..Len(issues) : issues[i].title = "Privacy Officer Required"

\* C15: the report of a Quebec profile lists the 'Privacy Officer Required'
\* issue in provincialStatus.issues whatever its safeguards are; the report of
\* a profile of any other province does not list it.
C15_QuebecPrivacyOfficer ==
  Generated =>
    (hasPrivacyOfficerIssue(report.legalCompliance.provincialStatus.issues)
       <=> storage.provinceCode = "QC")

\* a Quebec report that is provincially compliant and still lists the issue
C15_Witness ==
  /\ Generated
  /\ storage.provinceCode = "QC"
  /\ report.legalCompliance.provincialStatus.compliant
  /\ hasPrivacyOfficerIssue(report.legalCompliance.provincialStatus.issues)

----------------------------------------------------------------------------
(* C16 *)

\* the catalog lists the tool with a data residency other than Canada
hostedOutsideCanada(id) ==
  \E k \in 1..Len(AI_TOOLS) :
    AI_TOOLS[k].id = id /\ AI_TOOLS[k].dataResidency # "CANADA"

\* C16 (as stated): every data-flow record has crossBorder = true exactly when
\* a selected AI tool is hosted outside Canada, and the records of one report
\* carry the same crossBorder value.
C16_Original ==
  Generated =>
    LET flows == report.dataRiskAssessment.dataFlows
    IN  /\ \A i \in 1..Len(flows) :
             flows[i].crossBorder <=>
               \E t \in 1..Len(storage.aiTools) : hostedOutsideCanada(storage.aiTools[t])
        /\ \A i, j \in 1..Len(flows) : flows[i].crossBorder = flows[j].crossBorder

----------------------------------------------------------------------------
(* C17 *)

RECURSIVE indexOf(_, _)
indexOf(list, x) ==
  IF list = << >> THEN 1
  ELSE IF Head(list) = x THEN 1 ELSE 1 + indexOf(Tail(list), x)

\* the step the wizard is on: 1..5, and 6 once the report page is open
wizardStep ==
  IF hook # NoHook THEN hook.currentStep
  ELSE IF page = "report" THEN Len(FORM_STEPS) + 1
  ELSE indexOf(FORM_STEPS, page)

\* C17 (as stated): a single transition moves the wizard from step k to step
\* k-1 or step k+1 only; no navigation operation moves it by more than one step.
C17_Original ==
  [][ wizardStep' - wizardStep \in { -1, 0, 1 } ]_vars

----------------------------------------------------------------------------
(* C18 *)

\* profile holds the selections the page behind path edits
holdsFields(profile, path, f) ==
  IF path = "business-profile"
  THEN /\ profile.businessName = f.businessName
       /\ profile.industryId = f.industryId
       /\ profile.provinceCode = f.provinceCode
       /\ profile.employeeCount = f.employeeCount
  ELSE IF path = "ai-tools" THEN profile.aiTools = f.selectedTools
  ELSE IF path = "data-types" THEN profile.dataTypes = f.selectedTypes
  ELSE IF path = "usage-patterns"
  THEN /\ profile.usagePatterns = f.usagePatterns
       /\ profile.hasWrittenPolicies = f.hasWrittenPolicies
  ELSE IF path = "safeguards" THEN profile.safeguards = f.selectedSafeguards
  ELSE TRUE

isWizardPage(path) == \E i \in 1..Len(FORM_STEPS) : FORM_STEPS[i] = path

\* C18 (as stated): every transition from a wizard step, forward or backward,
\* leaves the slot holding the profile with the selections the user has on the
\* step being left; here for the transitions that start with a profile in the slot.
C18_Original ==
  [][ (isWizardPage(page) /\ page' # page /\ storage # NoProfile) =>
        (storage' # NoProfile /\ holdsFields(storage', page, fields)) ]_vars

----------------------------------------------------------------------------
(* C19 *)

\* C19: a page's hydration leaves the slot as it is and, when the slot holds a
\* profile, sets the page's fields to that profile's; nothing is written while
\* a page or the hook is not hydrated; the hook's form data after hydration is
\* the stored profile, and the effects of its mount leave a stored profile as
\* it is.
C19_HydrationKeepsStorage ==
  [][ /\ (isWizardPage(page) /\ ~isHydrated) => storage' = storage
      /\ (isWizardPage(page) /\ ~isHydrated /\ isHydrated' /\ storage # NoProfile)
           => holdsFields(storage, page, fields')
      /\ (hook # NoHook /\ ~hook.isHydrated) => storage' = storage
      /\ (hook # NoHook /\ ~hook.isHydrated /\ hook'.isHydrated /\ storage # NoProfile)
           => hook'.formData = storage
      /\ (hook # NoHook /\ hook.mounting /\ storage # NoProfile) => storage' = storage
    ]_vars

\* the hook has hydrated from a stored profile and its effects are over
C19_Witness ==
  /\ hook # NoHook
  /\ hook.isHydrated /\ ~hook.mounting
  /\ storage = StoredProfile
  /\ hook.formData = StoredProfile

----------------------------------------------------------------------------
(* C20 *)

\* C20: once the Safeguards step is submitted with a stored profile, the
\* report page is eventually open with the submitting flag false, whatever the
\* POST does; the report page then shows a report and no error, and the
\* report it derives locally is the one of the stored profile.
C20_SubmitReachesReport ==
  /\ (page = "safeguards" /\ isSubmitting) ~> (page = "report" /\ ~isSubmitting)
  /\ [](page = "report" /\ ~loading =>
          /\ error = NoError
          /\ report # NoReport
          /\ locals # NoLocals => report = generateDemoReport(storage))

\* after a POST that failed, the report page shows the locally derived report
C20_Witness ==
  /\ page = "report"
  /\ reportId = "demo-1"
  /\ ~loading
  /\ ~isSubmitting
  /\ Generated
  /\ report = generateDemoReport(storage)

----------------------------------------------------------------------------
(* C22 *)

\* C22: when the report page has loaded with an empty slot and the fetch of
\* the report gave none, generateDemoReport was not called, no report is held,
\* the 'No assessment data found' error is set, and loadReport is not enabled
\* again on the page.
C22_NoProfileEndsInError ==
  (page = "report" /\ storage = NoProfile /\ requests.response = "rejected") =>
    /\ ~loading
    /\ locals = NoLocals
    /\ report = NoReport
    /\ error = "No assessment data found. Please complete the assessment first."
    /\ ~ENABLED loadReport

\* the report page has loaded with an empty slot and a failed fetch
C22_Witness ==
  /\ page = "report"
  /\ storage = NoProfile
  /\ requests.response = "rejected"
  /\ error # NoError

----------------------------------------------------------------------------
(* C26 *)

\* C26: once the fetch of the report page has settled, loading is false and
\* either a report is held or the error is set, not both and not neither; the
\* report is the remote one when the fetch succeeded, and the locally derived
\* one of the stored profile when the fetch was rejected and the slot holds a
\* profile.
C26_LoadEndsWithOneOutcome ==
  (page = "report" /\ requests.response # "none") =>
    /\ ~loading
    /\ (report # NoReport) # (error # NoError)
    /\ requests.response = "ok" => (report \in RemoteReports /\ locals = NoLocals)
    /\ (requests.response = "rejected" /\ storage # NoProfile) =>
         (locals # NoLocals /\ report = generateDemoReport(storage))

\* a load whose fetch was rejected shows the locally derived report
C26_Witness ==
  /\ page = "report"
  /\ ~loading
  /\ requests.response = "rejected"
  /\ storage # NoProfile
  /\ report = generateDemoReport(storage)
  /\ error = NoError

----------------------------------------------------------------------------
(* C29 *)

\* C29 (as stated): for every data type of a generated report, the risk level
\* of its data-flow record is the level getRiskLevel gives to its
\* exposure-analysis score.
C29_Original ==
  Generated =>
    LET assessment == report.dataRiskAssessment
    IN  \A i \in 1..Len(assessment.dataFlows) :
          /\ assessment.exposureAnalysis[i].dataType = assessment.dataFlows[i].dataType
          /\ assessment.dataFlows[i].riskLevel
               = getRiskLevel(assessment.exposureAnalysis[i].score)


----------------------------------------------------------------------------
(* C28: the action plan of a generated report has exactly seven items, all
   not completed; a toggle of one action item flips the completed flag of
   that item only, leaves every other item, the report with its riskScore
   and riskLevel, and the stored profile as they were, and a second toggle
   of the same item gives back the items as they were before the first. *)

\* the entries at which two item lists of one length differ
differingAt(a, b) == { i \in 1..Len(a) : a[i] # b[i] }

C28_ToggleFlipsOneFlag ==
  /\ [](Generated =>
          /\ Len(report.actionPlan) = 7
          /\ \A i \in 1..7 : ~report.actionPlan[i].completed)
  /\ [][(items # NoItems /\ items' # NoItems /\ items' # items) =>
          /\ Len(items') = Len(items)
          /\ \E i \in 1..Len(items) :
               /\ differingAt(items, items') = { i }
               /\ items'[i] = [ items[i] EXCEPT !.completed = ~items[i].completed ]
               /\ toggled(items', items[i].id) = items
          /\ report' = report
          /\ storage' = storage
          /\ locals' = locals]_vars

\* three items of a generated report's plan are ticked, the report unchanged
C28_Witness ==
  /\ Generated
  /\ items # NoItems
  /\ Cardinality(differingAt(items, report.actionPlan)) = 3
  /\ report.riskScore = finalScore(storage)


----------------------------------------------------------------------------
(* C30: in the useMultiStepForm hook the current step stays within
   1..totalSteps under every sequence of goToStep, goToNextStep,
   goToPreviousStep and resetForm calls: goToNextStep at the last step and
   goToPreviousStep at the first step change nothing, goToStep with a step
   out of range changes nothing, and resetForm returns the step to 1. *)

C30_StepStaysInRange ==
  /\ [](hook # NoHook => hook.currentStep \in 1..totalSteps)
  /\ [][ /\ (goToNextStep /\ hook.currentStep = totalSteps) => UNCHANGED vars
         /\ (goToPreviousStep /\ hook.currentStep = 1) => UNCHANGED vars
         /\ (hook # NoHook /\ hook' # NoHook /\ hook'.currentStep # hook.currentStep) =>
              /\ hook.phase = "idle"
              /\ \E step \in 1..totalSteps : hook' = goToStepTo(hook, step) \/ resetForm
         /\ (hook # NoHook /\ hook.phase = "idle") =>
              \A step \in StepInputs \ (1..totalSteps) : goToStepTo(hook, step) = hook
         /\ resetForm => hook'.currentStep = 1 ]_vars

\* resetForm has brought the hook back from the last step to the first
C30_Witness ==
  /\ hook # NoHook
  /\ hook.currentStep = 1
  /\ hook.path = FORM_STEPS[totalSteps]
  /\ storage = NoProfile


----------------------------------------------------------------------------
(* C27: on the guided wizard, whenever the Safeguards step submits a
   profile, the dataTypes of that profile is non-empty: the DataTypes step
   does not advance with an empty selection, and no sequence of Next and Back
   transitions reaches the submission with an empty dataTypes in the slot. *)

C27_SubmittedDataTypesNonEmpty ==
  /\ []((page = "safeguards" /\ isSubmitting) => storage.dataTypes # << >>)
  /\ [][ (page = "data-types" /\ page' # page) =>
           \/ page' = "ai-tools"
           \/ /\ page' = "usage-patterns"
              /\ fields.selectedTypes # << >>
              /\ storage' # NoProfile => storage'.dataTypes = fields.selectedTypes ]_vars

\* a profile created on step 1, with no data types yet, has been submitted
C27_Witness ==
  /\ page = "safeguards"
  /\ isSubmitting
  /\ requests.sent = 1
  /\ storage.employeeCount = "MICRO"


----------------------------------------------------------------------------
(* C23 *)

\* the POST of the assessment succeeded and gave the id of the report now open
submissionSucceeded == page = "report" /\ reportId = "a1"

\* the step that ends the renders resetForm caused: the persist effect of the
\* render of the default form data, the slot having been cleared
settlesAfterReset ==
  /\ hook # NoHook /\ hook' # NoHook
  /\ ~hook.mounting
  /\ hook.phase = "persistEffect" /\ hook'.phase = "idle"
  /\ hook.formData = defaultFormData
  /\ storage = NoProfile

\* C23 (as stated): the slot that holds the profile is empty once the remote
\* submission has succeeded, and once resetForm has run and the component has
\* settled.
C23_Original ==
  /\ [](submissionSucceeded => storage = NoProfile)
  /\ [][settlesAfterReset => storage' = NoProfile]_vars


----------------------------------------------------------------------------
(* C24 *)

isCatalogDataType(dt) == \E i \in 1..Len(DATA_TYPES) : DATA_TYPES[i].value = dt

isCatalogSafeguard(sg) == \E i \in 1..Len(SAFEGUARDS) : SAFEGUARDS[i].value = sg

\* export type AssessmentPath
AssessmentPaths == { "EXPRESS", "GUIDED" }

\* every entry of list satisfies one of the catalog tests above
allTools(list) == \A i \in 1..Len(list) : isCatalogTool(list[i])

allDataTypes(list) == \A i \in 1..Len(list) : isCatalogDataType(list[i])

allSafeguards(list) == \A i \in 1..Len(list) : isCatalogSafeguard(list[i])

allUsagePatterns(list) == \A i \in 1..Len(list) : includes(USAGE_PATTERN_OPTIONS, list[i])

\* C24 (as stated): the profile the quick-scan path writes to storage has the
\* shape of a guided-wizard profile: every value of its aiTools, dataTypes and
\* safeguards resolves in its catalog, every value of usagePatterns is a
\* defined usage pattern, and assessmentPath is a defined path value.
C24_Original ==
  storage # NoProfile =>
    /\ allTools(storage.aiTools)
    /\ allDataTypes(storage.dataTypes)
    /\ allSafeguards(storage.safeguards)
    /\ allUsagePatterns(storage.usagePatterns)
    /\ storage.assessmentPath \in AssessmentPaths

----------------------------------------------------------------------------
(* C25 *)

\* handleSubmit of the results page sends the quick-assessment request
sendsQuickAssessment ==
  page = "quick-scan/results" /\ ~isSubmitting /\ isSubmitting' /\ requests'.sent = 1

\* C25 (as stated): on the quick-scan path, also when the user skips the
\* missing details, no submission request is sent and no profile is written to
\* storage for the report while business name, industry, province or employee
\* count is empty.
C25_Original ==
  /\ [][sendsQuickAssessment => canSubmit(fields)]_vars
  /\ [][(page = "quick-scan/results" /\ storage' # storage) => canSubmit(fields)]_vars
  /\ [](storage # NoProfile =>
          /\ trim(storage.businessName) # ""
          /\ storage.industryId # ""
          /\ storage.provinceCode # ""
          /\ storage.employeeCount # "")

----------------------------------------------------------------------------
(* C21: every remote call is attempted once per user action: for one wizard
   submission, one load of the report page, one website scan or one
   quick-assessment submission at most one request is sent, only the handler
   of the user action sends it, and after a failure nothing is sent again. *)

\* the steps in which a handler calls fetch
sendsRequest ==
  \/ SafeguardsPage_handleSubmit
  \/ loadReport
  \/ QuickScanPage_handleSubmit
  \/ QuickScanResultsPage_handleSubmit

C21_OneRequestPerAction ==
  /\ [](requests.sent <= 1)
  /\ [][(requests' # requests /\ requests'.sent >= 1) =>
          (sendsRequest /\ requests'.sent = 1)]_vars
  /\ [][(requests.response = "rejected" /\ requests' # requests) =>
          (requests' = NoRequests /\ page' = "report" /\ loading')]_vars

\* the report page, opened by a quick-scan submission, asked for the report
\* once, was refused and derived the report from the stored profile
C21_Witness ==
  /\ page = "report"
  /\ requests = [ sent |-> 1, response |-> "rejected" ]
  /\ storage # NoProfile
  /\ storage.assessmentPath = "QUICK_SCAN"
  /\ Generated

====
